---- MODULE Spec2Model ----
(***************************************************************************)
(* examples/PPO/train.py of PARL: the rollout / normalisation / training   *)
(* loop of the PPO example, as a state machine.                            *)
(*                                                                         *)
(* Numbers.  Floats are modelled as exact numbers: integers where the      *)
(* program only adds and compares, rationals <<num, den>> in lowest terms  *)
(* where it multiplies by gamma or divides by a count.  float32 rounding   *)
(* (astype('float32')) is not modelled.  The time-step feature is counted  *)
(* in units of 1e-3, so `step += 1e-3` adds StepInc = 1.                   *)
(*                                                                         *)
(* External collaborators.  The gym environment and the agent are outside  *)
(* the repository's file; a run fixes the sets of values they may return   *)
(* (envSpec, agentSpec) and every call draws from them.                    *)
(***************************************************************************)
EXTENDS Integers, Sequences, FiniteSets, TLC

\* ------------------------------------------------------------- bounds
MaxEpLen == 2              \* longest episode the environment allows (TimeLimit)
MaxNumEpisodes == 11       \* largest --num_episodes explored
MaxEpisodesPerBatch == 2   \* largest --episodes_per_batch explored
MaxLiveEpisodes == 5       \* largest --num_episodes of the termination runs

\* -------------------------------------------------- program constants
WarmupEpisodes == 5        \* collect_trajectories(..., episodes=5)
EvalPeriod == 5            \* episode % (episodes_per_batch * 5)
StepInc == 1               \* step += 1e-3, in units of 1e-3
ClipLow == -1              \* np.clip(action, -1.0, 1.0)
ClipHigh == 1

\* ------------------------------------------------------ exact numbers
\* Operands are bound once (x \in {e}) before they are used, so that an
\* expression handed down a chain of operators is evaluated one time.
RECURSIVE Gcd(_, _)
Gcd(a, b) ==
    IF b = 0 THEN a ELSE CHOOSE g \in {Gcd(y, x % y) : x \in {a}, y \in {b}} : TRUE

Abs(x) == IF x < 0 THEN -x ELSE x

\* the rational n/d (d # 0) in lowest terms with a positive denominator
Lowest(n, d) ==
    CHOOSE r \in {<<(s * n) \div g, (s * d) \div g>> :
                    g \in {Gcd(Abs(n), Abs(d))}, s \in {IF d < 0 THEN -1 ELSE 1}} : TRUE

Rat(n, d) == CHOOSE r \in {Lowest(x, y) : x \in {n}, y \in {d}} : TRUE

FromInt(n) == <<n, 1>>
\* sums are taken over the least common denominator
Lcm(x, y) == (x \div Gcd(x, y)) * y
AddLowest(a, b, l) == Rat(a[1] * (l \div a[2]) + b[1] * (l \div b[2]), l)
RAdd(p, q) ==
    CHOOSE r \in {AddLowest(ab[1], ab[2], Lcm(ab[1][2], ab[2][2])) : ab \in {<<p, q>>}} : TRUE
RSub(p, q) ==
    CHOOSE r \in {RAdd(a, <<-b[1], b[2]>>) : a \in {p}, b \in {q}} : TRUE
RMul(p, q) ==
    CHOOSE r \in
        {Rat((a[1] \div Gcd(Abs(a[1]), b[2])) * (b[1] \div Gcd(Abs(b[1]), a[2])),
                (a[2] \div Gcd(Abs(b[1]), a[2])) * (b[2] \div Gcd(Abs(a[1]), b[2]))) :
            a \in {p}, b \in {q}} : TRUE
RZero == FromInt(0)
ROne == FromInt(1)

RECURSIVE SumSeq(_)
SumSeq(s) == IF s = <<>> THEN 0 ELSE Head(s) + SumSeq(Tail(s))

RECURSIVE RSumSeq(_)
RSumSeq(s) == IF s = <<>> THEN RZero ELSE RAdd(Head(s), RSumSeq(Tail(s)))

\* np.concatenate of a list of per-episode arrays
RECURSIVE Concat(_)
Concat(ss) == IF ss = <<>> THEN <<>> ELSE Head(ss) \o Concat(Tail(ss))

\* ------------------------------------------------------------- Scaler
\* utils.Scaler: running count, mean and variance per observation dimension,
\* held as the equivalent sums (mean = sum/cnt, var = sumsq/cnt - mean^2).
ScalerNew(dim) ==
    [cnt |-> 0, sum |-> [d \in 1..dim |-> 0], sumsq |-> [d \in 1..dim |-> 0]]

RECURSIVE ColSum(_, _)
ColSum(xs, d) == IF xs = <<>> THEN 0 ELSE Head(xs)[d] + ColSum(Tail(xs), d)

RECURSIVE ColSumSq(_, _)
ColSumSq(xs, d) ==
    IF xs = <<>> THEN 0 ELSE Head(xs)[d] * Head(xs)[d] + ColSumSq(Tail(xs), d)

\* Scaler.update(x): fold the rows of x into the running statistics
ScalerUpdate(s, xs) ==
    [cnt   |-> s.cnt + Len(xs),
     sum   |-> [d \in DOMAIN s.sum |-> s.sum[d] + ColSum(xs, d)],
     sumsq |-> [d \in DOMAIN s.sumsq |-> s.sumsq[d] + ColSumSq(xs, d)]]

\* A scale entry is either the literal 1.0 or "the scale the Scaler derives
\* from this dimension's running variance", kept as a term over the statistics
\* (the derivation takes a square root).
ScaleOne == [lit |-> TRUE, cnt |-> 0, sum |-> 0, sumsq |-> 0]
ScaleFromStats(c, s, q) == [lit |-> FALSE, cnt |-> c, sum |-> s, sumsq |-> q]
MeanOf(c, s) == IF c = 0 THEN RZero ELSE Rat(s, c)

\* Scaler.get(): (scale, offset), fresh vectors computed from the statistics
ScalerGet(s) ==
    [scale  |-> [d \in DOMAIN s.sum |-> ScaleFromStats(s.cnt, s.sum[d], s.sumsq[d])],
     offset |-> [d \in DOMAIN s.sum |-> MeanOf(s.cnt, s.sum[d])]]

\* --------------------------------------------------- parl.utils, utils
\* action_mapping(x, low, high): [-1, 1] linearly onto [low, high]
action_mapping(x, lo, hi) == lo + ((x - (-1)) * (hi - lo)) \div 2

\* out[i] = rs[i] + g * out[i+1], from the end of the array backwards
RECURSIVE DiscountFrom(_, _)
DiscountFrom(rs, g) ==
    IF rs = <<>> THEN <<>>
    ELSE CHOOSE out \in
            {<<RAdd(Head(rs), RMul(g, IF rest = <<>> THEN RZero ELSE Head(rest)))>> \o rest :
                rest \in {DiscountFrom(Tail(rs), g)}} : TRUE

\* calc_discount_sum_rewards(rewards, gamma): out[i] = sum_j>=i gamma^(j-i) * rewards[j],
\* over the whole array it is handed
calc_discount_sum_rewards(rs, g) ==
    CHOOSE out \in {DiscountFrom(r, k) : r \in {rs}, k \in {g}} : TRUE

\* r[i] + gamma*v[i+1] - v[i], with v past the end taken as 0
TdResiduals(rs, vs, g) ==
    [i \in 1..Len(rs) |->
        RAdd(RSub(rs[i], vs[i]), IF i < Len(rs) THEN RMul(g, vs[i + 1]) ELSE RZero)]

\* calc_gae(rewards, values, gamma, lam): discounted sum, with factor gamma*lam,
\* of the TD residuals
calc_gae(rs, vs, g, l) ==
    CHOOSE out \in
        {calc_discount_sum_rewards(TdResiduals(r, v, k), RMul(k, l)) :
            r \in {rs}, v \in {vs}, k \in {g}} : TRUE

\* --------------------------------------------------------------- state
VARIABLES
    args,          \* [num_episodes, episodes_per_batch, gamma, lam]
    envSpec,       \* [obs_dim, low, high, obsVals, rewVals, horizon, early]: the env
    agentSpec,     \* [sampleVals, predictVals, valVals]: what the agent can return
    envT,          \* env: steps taken since reset
    envDone,       \* env: the episode has reported done
    envRet,        \* env: sum of the rewards returned since reset
    envMisuse,     \* env: step was called on a finished episode
    pc,            \* the statement main's thread is at
    caller,        \* call site of collect_trajectories: "warmup" or "batch"
    scaler,        \* the Scaler object
    episode,       \* main: episode
    episodes, e,   \* collect_trajectories: argument and loop index
    all_obs, all_actions, all_rewards, all_unscaled_obs,
    obs, observes, actions, rewards, unscaled_obs, done, step, scale, offset,
    m_obs, m_actions, m_rewards,   \* main: obs, actions, rewards
    pred_values, scale_rewards, discount_sum_rewards, advantages, eval_reward,
    \* history of the run, written but never read by the program
    hist,          \* counters of calls
    iterCalls,     \* agent/collect calls of the current loop iteration, in order
    lastAction,    \* the action of the latest env.step call
    lastPolicy,    \* [kind, out, obs, k]: the latest policy call
    batchNorms,    \* the (scale, offset) each episode of the current batch used
    batchSeen,     \* the unscaled observations the current batch's steps saw
    batchEpLens    \* the lengths of the episodes of the batch main holds

envVars == <<envT, envDone, envRet, envMisuse>>
collectVars == <<episodes, e, all_obs, all_actions, all_rewards, all_unscaled_obs>>
episodeVars == <<obs, observes, actions, rewards, unscaled_obs, done, step, scale, offset>>
mainVars == <<m_obs, m_actions, m_rewards, pred_values, scale_rewards,
              discount_sum_rewards, advantages, eval_reward>>
histVars == <<hist, iterCalls, lastAction, lastPolicy, batchNorms, batchSeen,
             batchEpLens>>
cfgVars == <<args, envSpec, agentSpec>>
vars == <<cfgVars, envVars, pc, caller, scaler, episode, collectVars, episodeVars,
          mainVars, histVars>>

NoPolicy == [kind |-> "none", out |-> <<>>, obs |-> <<>>, k |-> 0]
Hist0 == [train_eps |-> 0, updates |-> 0, batches |-> 0, evals |-> 0,
          value_predict |-> 0, policy_learn |-> 0, value_learn |-> 0,
          policy_sample |-> 0]
Bump(h, f) == [h EXCEPT ![f] = @ + 1]

\* main, lines 99-115: env, Scaler(obs_dim + 1), model, agent
InitWith(a, es, ag) ==
    /\ args = a /\ envSpec = es /\ agentSpec = ag
    /\ envT = 0 /\ envDone = FALSE /\ envRet = 0 /\ envMisuse = FALSE
    /\ pc = "warmup" /\ caller = "none"
    /\ scaler = ScalerNew(es.obs_dim + 1)
    /\ episode = 0
    /\ episodes = 0 /\ e = 0
    /\ all_obs = <<>> /\ all_actions = <<>> /\ all_rewards = <<>>
    /\ all_unscaled_obs = <<>>
    /\ obs = <<>> /\ observes = <<>> /\ actions = <<>> /\ rewards = <<>>
    /\ unscaled_obs = <<>> /\ done = FALSE /\ step = 0
    /\ scale = <<>> /\ offset = <<>>
    /\ m_obs = <<>> /\ m_actions = <<>> /\ m_rewards = <<>>
    /\ pred_values = <<>> /\ scale_rewards = <<>> /\ discount_sum_rewards = <<>>
    /\ advantages = <<>> /\ eval_reward = 0
    /\ hist = Hist0 /\ iterCalls = <<>> /\ lastAction = <<>>
    /\ lastPolicy = NoPolicy /\ batchNorms = <<>> /\ batchSeen = <<>>
    /\ batchEpLens = <<>>

\* ---------------------------------------------------------- environment
\* env.step reports done at the horizon at the latest, and, in an environment
\* with early termination, possibly before
DoneChoices ==
    IF envT + 1 >= envSpec.horizon THEN {TRUE}
    ELSE IF envSpec.early THEN BOOLEAN ELSE {FALSE}

EnvReset ==
    /\ envT' = 0 /\ envDone' = FALSE /\ envRet' = 0
    /\ UNCHANGED envMisuse

EnvStep(r, d) ==
    /\ envT' = envT + 1
    /\ envDone' = d
    /\ envRet' = envRet + r
    /\ envMisuse' = (envMisuse \/ envDone)

\* -------------------------------------------------------------- helpers
\* the time-step entry left as the scaler gave it
TimeStepOverride_Missing(so) == so

\* lines 30-32 and 61-63: scaler.get(), then the time-step entry is overwritten
TimeStepOverride(so) ==
    LET n == Len(so.scale)
    IN  [scale  |-> [so.scale EXCEPT ![n] = ScaleOne],
         offset |-> [so.offset EXCEPT ![n] = RZero]]

EpisodeNorm == TimeStepOverride(ScalerGet(scaler))

\* lines 34-35 and 65-66: append the time-step feature
WithTimeStep(o, t) == Append(o, t)

\* lines 37-38 and 67-68: (obs - offset) * scale, entry by entry; the centred
\* value is exact, the product with a non-literal scale stays a term
Normalize(o, off, sc) ==
    [d \in 1..Len(o) |-> [c |-> RSub(FromInt(o[d]), off[d]), s |-> sc[d]]]

Clip(x, lo, hi) == IF x < lo THEN lo ELSE IF x > hi THEN hi ELSE x

\* lines 42-44: np.clip, then action_mapping with the bounds of dimension 0
TrainAction(a) ==
    [i \in 1..Len(a) |->
        action_mapping(Clip(a[i], ClipLow, ClipHigh), envSpec.low[1], envSpec.high[1])]

\* lines 71-72: action_mapping with the bounds of dimension 0, no clip
EvalAction(a) ==
    [i \in 1..Len(a) |-> action_mapping(a[i], envSpec.low[1], envSpec.high[1])]

\* line 85: for e in range(episodes)
ForNext(i, n) == IF i < n THEN "train_start" ELSE "update"

\* the loop test off by one: one batch too many
LoopCond_OffByOne == episode <= args.num_episodes

\* line 121: while episode < args.num_episodes
LoopCond == episode < args.num_episodes

\* the evaluation test taken on the count before this batch's episodes
EvalDue_BeforeIncrement ==
    (episode - args.episodes_per_batch) % (args.episodes_per_batch * EvalPeriod) = 0

\* line 149: episode % (args.episodes_per_batch * 5) == 0
EvalDue == episode % (args.episodes_per_batch * EvalPeriod) = 0

\* ------------------------------------------------- collect_trajectories
\* line 84, entered from a call site with `n` episodes
CollectEnter(site, n) ==
    /\ caller' = site
    /\ episodes' = n /\ e' = 0
    /\ all_obs' = <<>> /\ all_actions' = <<>> /\ all_rewards' = <<>>
    /\ all_unscaled_obs' = <<>>
    /\ batchNorms' = <<>> /\ batchSeen' = <<>>
    /\ pc' = ForNext(0, n)

\* a warm-up of another size
WarmupCall_Short ==
    /\ pc = "warmup"
    /\ CollectEnter("warmup", WarmupEpisodes - 1)
    /\ UNCHANGED <<cfgVars, envVars, scaler, episode, episodeVars, mainVars,
                   hist, iterCalls, lastAction, lastPolicy, batchEpLens>>

\* line 118: collect_trajectories(env, agent, scaler, episodes=5)
WarmupCall ==
    /\ pc = "warmup"
    /\ CollectEnter("warmup", WarmupEpisodes)
    /\ UNCHANGED <<cfgVars, envVars, scaler, episode, episodeVars, mainVars,
                   hist, iterCalls, lastAction, lastPolicy, batchEpLens>>

\* lines 121-123: the loop test holds, collect_trajectories(..., episodes_per_batch)
BatchCall ==
    /\ pc = "loop" /\ LoopCond
    /\ CollectEnter("batch", args.episodes_per_batch)
    /\ hist' = Bump(hist, "batches")
    /\ iterCalls' = <<[op |-> "collect", obs |-> <<>>]>>
    /\ UNCHANGED <<cfgVars, envVars, scaler, episode, episodeVars, mainVars,
                   lastAction, lastPolicy, batchEpLens>>

\* line 121: the loop test fails, main returns
LoopExit ==
    /\ pc = "loop" /\ ~LoopCond
    /\ pc' = "done"
    /\ UNCHANGED <<cfgVars, envVars, caller, scaler, episode, collectVars,
                   episodeVars, mainVars, histVars>>

\* lines 26-32: run_train_episode up to the loop
TrainStart ==
    /\ pc = "train_start"
    /\ \E o \in envSpec.obsVals : obs' = o
    /\ EnvReset
    /\ observes' = <<>> /\ actions' = <<>> /\ rewards' = <<>> /\ unscaled_obs' = <<>>
    /\ done' = FALSE /\ step' = 0
    /\ scale' = EpisodeNorm.scale /\ offset' = EpisodeNorm.offset
    /\ batchNorms' = Append(batchNorms, EpisodeNorm)
    /\ hist' = Bump(hist, "train_eps")
    /\ pc' = "train_loop"
    /\ UNCHANGED <<cfgVars, caller, scaler, episode, collectVars, mainVars,
                   iterCalls, lastAction, lastPolicy, batchSeen, batchEpLens>>

\* lines 33-51: one iteration of `while not done`
TrainStep ==
    /\ pc = "train_loop" /\ ~done
    /\ LET uo == WithTimeStep(obs, step)
           no == Normalize(uo, offset, scale)
       IN  /\ unscaled_obs' = Append(unscaled_obs, uo)
           /\ batchSeen' = Append(batchSeen, uo)
           /\ observes' = Append(observes, no)
           /\ \E a \in agentSpec.sampleVals :
                /\ lastPolicy' = [kind |-> "sample", out |-> a, obs |-> no, k |-> envT]
                /\ actions' = Append(actions, TrainAction(a))
                /\ lastAction' = TrainAction(a)
    /\ \E o \in envSpec.obsVals, r \in envSpec.rewVals, d \in DoneChoices :
         /\ EnvStep(r, d)
         /\ obs' = o /\ done' = d
         /\ rewards' = Append(rewards, r)
    /\ step' = step + StepInc
    /\ hist' = Bump(hist, "policy_sample")
    /\ UNCHANGED <<cfgVars, pc, caller, scaler, episode, collectVars, scale, offset,
                   mainVars, iterCalls, batchNorms, batchEpLens>>

\* the scaler updated inside the loop, after every episode
TrainReturn_UpdatesScaler ==
    /\ pc = "train_loop" /\ done
    /\ all_obs' = Append(all_obs, observes)
    /\ all_actions' = Append(all_actions, actions)
    /\ all_rewards' = Append(all_rewards, rewards)
    /\ all_unscaled_obs' = Append(all_unscaled_obs, unscaled_obs)
    /\ scaler' = ScalerUpdate(scaler, unscaled_obs)
    /\ e' = e + 1
    /\ pc' = ForNext(e + 1, episodes)
    /\ obs' = <<>> /\ observes' = <<>> /\ actions' = <<>> /\ rewards' = <<>>
    /\ unscaled_obs' = <<>> /\ done' = FALSE /\ step' = 0
    /\ scale' = <<>> /\ offset' = <<>>
    /\ UNCHANGED <<cfgVars, envVars, caller, episode, episodes, mainVars, histVars>>

\* lines 53-54 and 86-91: the episode returns, its arrays join the batch's lists
TrainReturn ==
    /\ pc = "train_loop" /\ done
    /\ all_obs' = Append(all_obs, observes)
    /\ all_actions' = Append(all_actions, actions)
    /\ all_rewards' = Append(all_rewards, rewards)
    /\ all_unscaled_obs' = Append(all_unscaled_obs, unscaled_obs)
    /\ e' = e + 1
    /\ pc' = ForNext(e + 1, episodes)
    /\ obs' = <<>> /\ observes' = <<>> /\ actions' = <<>> /\ rewards' = <<>>
    /\ unscaled_obs' = <<>> /\ done' = FALSE /\ step' = 0
    /\ scale' = <<>> /\ offset' = <<>>
    /\ UNCHANGED <<cfgVars, envVars, caller, scaler, episode, episodes, mainVars,
                   histVars>>

\* lines 92-93: scaler.update(np.concatenate(all_unscaled_obs))
CollectUpdate ==
    /\ pc = "update"
    /\ scaler' = ScalerUpdate(scaler, Concat(all_unscaled_obs))
    /\ hist' = Bump(hist, "updates")
    /\ pc' = "collect_return"
    /\ UNCHANGED <<cfgVars, envVars, caller, episode, collectVars, episodeVars,
                   mainVars, iterCalls, lastAction, lastPolicy, batchNorms, batchSeen,
                   batchEpLens>>

ClearCollect ==
    /\ episodes' = 0 /\ e' = 0
    /\ all_obs' = <<>> /\ all_actions' = <<>> /\ all_rewards' = <<>>
    /\ all_unscaled_obs' = <<>>
    /\ caller' = "none"

\* lines 94-95 returning to line 118: the warm-up's arrays are dropped
WarmupReturn ==
    /\ pc = "collect_return" /\ caller = "warmup"
    /\ ClearCollect
    /\ pc' = "loop"
    /\ UNCHANGED <<cfgVars, envVars, scaler, episode, episodeVars, mainVars, histVars>>

\* lines 94-95 returning to lines 122-124
BatchReturn ==
    /\ pc = "collect_return" /\ caller = "batch"
    /\ m_obs' = Concat(all_obs)
    /\ m_actions' = Concat(all_actions)
    /\ m_rewards' = Concat(all_rewards)
    /\ batchEpLens' = [i \in 1..Len(all_rewards) |-> Len(all_rewards[i])]
    /\ episode' = episode + args.episodes_per_batch
    /\ ClearCollect
    /\ pc' = "value_predict"
    /\ UNCHANGED <<cfgVars, envVars, scaler, episodeVars, pred_values, scale_rewards,
                   discount_sum_rewards, advantages, eval_reward, hist, iterCalls,
                   lastAction, lastPolicy, batchNorms, batchSeen>>

\* ------------------------------------------------------------------ main
\* line 126: pred_values = agent.value_predict(obs)
ValuePredict ==
    /\ pc = "value_predict"
    /\ \E pv \in [1..Len(m_obs) -> agentSpec.valVals] : pred_values' = pv
    /\ hist' = Bump(hist, "value_predict")
    /\ iterCalls' = Append(iterCalls, [op |-> "value_predict", obs |-> m_obs])
    /\ pc' = "returns"
    /\ UNCHANGED <<cfgVars, envVars, caller, scaler, episode, collectVars, episodeVars,
                   m_obs, m_actions, m_rewards, scale_rewards, discount_sum_rewards,
                   advantages, eval_reward, lastAction, lastPolicy, batchNorms, batchSeen,
                   batchEpLens>>

\* lines 137-138: (advantages - mean) / (std + 1e-6); the centred values are
\* exact, the division by the spread of `adv` stays a term
NormalizeAdvantages(adv) ==
    CHOOSE out \in
        {[centred |-> [i \in 1..Len(a) |-> RSub(a[i], m)], spread_of |-> a] :
            a \in {adv}, m \in {RMul(RSumSeq(adv), Rat(1, Len(adv)))}} : TRUE

\* line 129
ScaleRewards(rs) ==
    [i \in 1..Len(rs) |-> RMul(FromInt(rs[i]), RSub(ROne, args.gamma))]

\* lines 131-133: the batch's scaled rewards, as one array
DiscountSumRewards == calc_discount_sum_rewards(ScaleRewards(m_rewards), args.gamma)

\* line 135
Advantages == calc_gae(ScaleRewards(m_rewards), pred_values, args.gamma, args.lam)

\* lines 129-139
ComputeReturns ==
    /\ pc = "returns"
    /\ scale_rewards' = ScaleRewards(m_rewards)
    /\ discount_sum_rewards' = DiscountSumRewards
    /\ advantages' = NormalizeAdvantages(Advantages)
    /\ pc' = "policy_learn"
    /\ UNCHANGED <<cfgVars, envVars, caller, scaler, episode, collectVars, episodeVars,
                   m_obs, m_actions, m_rewards, pred_values, eval_reward, histVars>>

\* the two learning calls in the other order
PolicyLearn_AfterValueLearn ==
    /\ pc = "policy_learn"
    /\ hist' = Bump(Bump(hist, "policy_learn"), "value_learn")
    /\ iterCalls' = iterCalls \o <<[op |-> "value_learn", obs |-> m_obs],
                                   [op |-> "policy_learn", obs |-> m_obs]>>
    /\ pc' = "eval_check"
    /\ UNCHANGED <<cfgVars, envVars, caller, scaler, episode, collectVars, episodeVars,
                   mainVars, lastAction, lastPolicy, batchNorms, batchSeen, batchEpLens>>

\* line 141: agent.policy_learn(obs, actions, advantages)
PolicyLearn ==
    /\ pc = "policy_learn"
    /\ hist' = Bump(hist, "policy_learn")
    /\ iterCalls' = Append(iterCalls, [op |-> "policy_learn", obs |-> m_obs])
    /\ pc' = "value_learn"
    /\ UNCHANGED <<cfgVars, envVars, caller, scaler, episode, collectVars, episodeVars,
                   mainVars, lastAction, lastPolicy, batchNorms, batchSeen, batchEpLens>>

\* line 142: agent.value_learn(obs, discount_sum_rewards)
ValueLearn ==
    /\ pc = "value_learn"
    /\ hist' = Bump(hist, "value_learn")
    /\ iterCalls' = Append(iterCalls, [op |-> "value_learn", obs |-> m_obs])
    /\ pc' = "eval_check"
    /\ UNCHANGED <<cfgVars, envVars, caller, scaler, episode, collectVars, episodeVars,
                   mainVars, lastAction, lastPolicy, batchNorms, batchSeen, batchEpLens>>

\* lines 144-149: the train log line, then the test for an evaluation
EvalCheck ==
    /\ pc = "eval_check"
    /\ pc' = IF EvalDue THEN "eval_start" ELSE "loop"
    /\ UNCHANGED <<cfgVars, envVars, caller, scaler, episode, collectVars, episodeVars,
                   mainVars, histVars>>

\* --------------------------------------------------- run_evaluate_episode
\* lines 58-63
EvalStart ==
    /\ pc = "eval_start"
    /\ \E o \in envSpec.obsVals : obs' = o
    /\ EnvReset
    /\ rewards' = <<>> /\ step' = 0
    /\ scale' = EpisodeNorm.scale /\ offset' = EpisodeNorm.offset
    /\ hist' = Bump(hist, "evals")
    /\ pc' = "eval_loop"
    /\ UNCHANGED <<cfgVars, caller, scaler, episode, collectVars, observes, actions,
                   unscaled_obs, done, mainVars, iterCalls, lastAction, lastPolicy,
                   batchNorms, batchSeen, batchEpLens>>

\* lines 64-79: one iteration of `while True`, left when env.step reports done
EvalStep ==
    /\ pc = "eval_loop"
    /\ LET no == Normalize(WithTimeStep(obs, step), offset, scale)
       IN  \E a \in agentSpec.predictVals :
             /\ lastPolicy' = [kind |-> "predict", out |-> a, obs |-> no, k |-> envT]
             /\ lastAction' = EvalAction(a)
    /\ \E o \in envSpec.obsVals, r \in envSpec.rewVals, d \in DoneChoices :
         /\ EnvStep(r, d)
         /\ obs' = o
         /\ rewards' = Append(rewards, r)
         /\ pc' = IF d THEN "eval_return" ELSE "eval_loop"
    /\ step' = step + StepInc
    /\ UNCHANGED <<cfgVars, caller, scaler, episode, collectVars, observes, actions,
                   unscaled_obs, done, scale, offset, mainVars, hist, iterCalls,
                   batchNorms, batchSeen, batchEpLens>>

\* the reward of the step that reported done left out
EvalResult_DropsLast == SumSeq(SubSeq(rewards, 1, Len(rewards) - 1))

\* line 80: np.sum(rewards)
EvalResult == SumSeq(rewards)

\* line 80, returning to lines 150-152
EvalReturn ==
    /\ pc = "eval_return"
    /\ eval_reward' = EvalResult
    /\ obs' = <<>> /\ rewards' = <<>> /\ step' = 0 /\ scale' = <<>> /\ offset' = <<>>
    /\ pc' = "loop"
    /\ UNCHANGED <<cfgVars, envVars, caller, scaler, episode, collectVars, observes,
                   actions, unscaled_obs, done, m_obs, m_actions, m_rewards,
                   pred_values, scale_rewards, discount_sum_rewards, advantages,
                   histVars>>

Next ==
    \/ WarmupCall \/ BatchCall \/ LoopExit
    \/ TrainStart \/ TrainStep \/ TrainReturn
    \/ CollectUpdate \/ WarmupReturn \/ BatchReturn
    \/ ValuePredict \/ ComputeReturns \/ PolicyLearn \/ ValueLearn \/ EvalCheck
    \/ EvalStart \/ EvalStep \/ EvalReturn

\* ------------------------------------------------------------- the runs
Half == Rat(1, 2)

Args(n, b) == [num_episodes |-> n, episodes_per_batch |-> b, gamma |-> Half, lam |-> Half]

\* an environment with one-dimensional observations and two action dimensions
Env(lo, hi, os, rs, h, early) ==
    [obs_dim |-> 1, low |-> lo, high |-> hi, obsVals |-> os, rewVals |-> rs,
     horizon |-> h, early |-> early]

\* the agent: what policy_sample, policy_predict and value_predict may return
Agent(ss, ps, vs) == [sampleVals |-> ss, predictVals |-> ps, valVals |-> vs]

\* the environments explored: one whose episodes end after one or two steps,
\* and those whose episodes all last h steps
Envs(os, rs) ==
    {Env(<<-1, -1>>, <<1, 1>>, os, rs, 2, TRUE)}
        \cup {Env(<<-1, -1>>, <<1, 1>>, os, rs, h, FALSE) : h \in 1..MaxEpLen}

\* control flow: every --num_episodes and --episodes_per_batch
InitFlow ==
    \E n \in 0..MaxNumEpisodes, b \in 1..MaxEpisodesPerBatch, env \in Envs({<<0>>}, {1}) :
        InitWith(Args(n, b), env,
                 Agent({<<0, 0>>}, {<<0, 0>>}, {RZero}))

Spec == InitFlow /\ [][Next]_vars

\* actions: samples outside [-1, 1] (mean plus noise), predictions inside it
\* (the mode), boxes with equal and with unequal bounds per dimension,
\* one-step episodes
ActionBoxes ==
    {[low |-> <<-1, -1>>, high |-> <<1, 1>>],
     [low |-> <<-2, -2>>, high |-> <<2, 2>>],
     [low |-> <<-2, -1>>, high |-> <<2, 1>>]}

InitAct ==
    \E box \in ActionBoxes :
        InitWith(Args(EvalPeriod, 1),
                 Env(box.low, box.high, {<<0>>}, {1}, 1, FALSE),
                 Agent({<<-2, 0>>, <<1, -1>>, <<0, 2>>}, {<<-1, 0>>, <<0, 1>>}, {RZero}))

SpecAct == InitAct /\ [][Next]_vars

\* the runs of the data specifications: one episode per batch up to the first
\* evaluation, and one batch of each larger size
DataRuns ==
    {Args(EvalPeriod, 1)} \cup {Args(b, b) : b \in 2..MaxEpisodesPerBatch}

\* observations: two raw observations
InitObs ==
    \E a \in DataRuns, env \in Envs({<<0>>, <<1>>}, {1}) :
        InitWith(a, env,
                 Agent({<<0, 0>>}, {<<0, 0>>}, {RZero}))

SpecObs == InitObs /\ [][Next]_vars

\* rewards: two rewards
InitRew ==
    \E a \in DataRuns, env \in Envs({<<0>>}, {0, 1}) :
        InitWith(a, env,
                 Agent({<<0, 0>>}, {<<0, 0>>}, {RZero}))

SpecRew == InitRew /\ [][Next]_vars

\* termination: the smaller --num_episodes; main is one thread that always
\* takes its next step
InitLive ==
    \E n \in 0..MaxLiveEpisodes, b \in 1..MaxEpisodesPerBatch, env \in Envs({<<0>>}, {1}) :
        InitWith(Args(n, b), env,
                 Agent({<<0, 0>>}, {<<0, 0>>}, {RZero}))

FairSpec == InitLive /\ [][Next]_vars /\ WF_vars(Next)

\* ============================================================== claims
TrainedEpisodes == hist.train_eps - WarmupEpisodes
InEval == pc \in {"eval_start", "eval_loop", "eval_return"}
IterationOps == <<"collect", "value_predict", "policy_learn", "value_learn">>
OpsOf(calls) == [i \in 1..Len(calls) |-> calls[i].op]

\* C5: with every episode ending (the environment's horizon) and
\* episodes_per_batch >= 1, main eventually returns; when it has returned the
\* training episodes run (warm-up not counted) number at least num_episodes;
\* and a batch is started only while that number is below num_episodes.
C5_Terminates ==
    /\ <>(pc = "done")
    /\ [](pc = "done" => TrainedEpisodes >= args.num_episodes)
    /\ [](pc = "done" => TrainedEpisodes = hist.batches * args.episodes_per_batch)
    /\ [][hist'.batches # hist.batches => TrainedEpisodes < args.num_episodes]_vars

C5_Witness ==
    pc = "done" /\ args.num_episodes = 3 /\ args.episodes_per_batch = 2 /\ hist.batches = 2

\* C6: until the first training batch is started, exactly 5 training-style
\* episodes run and the scaler is updated exactly once, nothing is predicted or
\* learned, nothing is evaluated and the episode counter is 0; with
\* num_episodes = 0 main returns after the warm-up alone.
C6_Warmup ==
    /\ hist.batches = 0 =>
          /\ hist.value_predict = 0 /\ hist.policy_learn = 0 /\ hist.value_learn = 0
          /\ hist.evals = 0 /\ episode = 0
          /\ hist.train_eps <= 5 /\ hist.updates <= 1
    /\ (hist.batches = 0 /\ pc \in {"loop", "done"}) =>
          hist.train_eps = 5 /\ hist.updates = 1
    /\ hist.batches > 0 => hist.train_eps >= 5 /\ hist.updates >= 1
    /\ (pc = "done" /\ args.num_episodes = 0) =>
          hist.batches = 0 /\ hist.train_eps = 5 /\ hist.updates = 1

C6_Witness == pc = "done" /\ args.num_episodes = 0 /\ hist.train_eps = 5

\* C7: an evaluation episode follows the k-th training batch exactly when k is
\* a multiple of 5; it starts after that batch's policy_learn and value_learn
\* and has returned before the next batch is collected.
C7_EvalEveryFifth ==
    /\ InEval =>
          /\ hist.batches > 0 /\ hist.batches % 5 = 0
          /\ hist.evals = (hist.batches \div 5) - (IF pc = "eval_start" THEN 1 ELSE 0)
          /\ hist.policy_learn = hist.batches /\ hist.value_learn = hist.batches
    /\ pc \in {"loop", "done"} => hist.evals = hist.batches \div 5
    /\ (~InEval /\ pc \notin {"loop", "done"} /\ hist.batches > 0) =>
          hist.evals = (hist.batches - 1) \div 5

C7_Witness ==
    pc = "eval_return" /\ hist.batches = 10 /\ hist.evals = 2
    /\ args.episodes_per_batch = 1

\* C9: each loop iteration calls, once each and in this order, collect (one
\* scaler update, episodes_per_batch episodes), value_predict, policy_learn,
\* value_learn, the three agent calls on the observations of that batch.
C9_IterationOrder ==
    /\ hist.batches > 0 =>
          /\ Len(iterCalls) <= Len(IterationOps)
          /\ OpsOf(iterCalls) = SubSeq(IterationOps, 1, Len(iterCalls))
          /\ \A i \in 2..Len(iterCalls) : iterCalls[i].obs = m_obs
    /\ (hist.batches > 0 /\ (InEval \/ pc \in {"eval_check", "loop", "done"})) =>
          /\ OpsOf(iterCalls) = IterationOps
          /\ hist.value_predict = hist.batches
          /\ hist.policy_learn = hist.batches
          /\ hist.value_learn = hist.batches
          /\ hist.updates = hist.batches + 1
          /\ TrainedEpisodes = hist.batches * args.episodes_per_batch
    /\ pc = "value_predict" =>
          /\ OpsOf(iterCalls) = <<"collect">>
          /\ hist.updates = hist.batches + 1
          /\ Len(batchEpLens) = args.episodes_per_batch
          /\ Len(m_obs) = SumSeq(batchEpLens)

C9_Witness ==
    pc = "eval_check" /\ hist.batches = 2 /\ args.episodes_per_batch = 2
    /\ Len(m_obs) = 3

C2_TrainActionInBounds ==
    lastPolicy.kind = "sample" =>
        \A i \in 1..Len(lastAction) :
            /\ envSpec.low[i] <= lastAction[i] /\ lastAction[i] <= envSpec.high[i]
            /\ 2 * (lastAction[i] - envSpec.low[i]) =
                 (Clip(lastPolicy.out[i], -1, 1) + 1) * (envSpec.high[i] - envSpec.low[i])

\* what holds instead: the bounds of dimension 0 are applied to every dimension
TrainActionInFirstBounds ==
    lastPolicy.kind = "sample" =>
        \A i \in 1..Len(lastAction) :
            /\ envSpec.low[1] <= lastAction[i] /\ lastAction[i] <= envSpec.high[1]
            /\ 2 * (lastAction[i] - envSpec.low[1]) =
                 (Clip(lastPolicy.out[i], -1, 1) + 1) * (envSpec.high[1] - envSpec.low[1])

\* C3: the time-step entry of the observation handed to the policy at the k-th
\* step of an episode (training or evaluation) is k * 0.001, centred by 0 and
\* scaled by the literal 1, whatever the scaler holds.
C3_TimeStepFeature ==
    lastPolicy.kind # "none" =>
        lastPolicy.obs[Len(lastPolicy.obs)] = [c |-> FromInt(lastPolicy.k * 1), s |-> ScaleOne]

C3_Witness ==
    /\ lastPolicy.kind = "predict" /\ lastPolicy.k = 1
    /\ scaler.sum[2] > 0
    /\ lastPolicy.obs[1].c # FromInt(0) /\ lastPolicy.obs[1].c # FromInt(1)

\* C4: an evaluation episode steps the environment at least once, stops at the
\* first step that reports done, never steps a finished episode, and returns
\* the sum of the rewards of all its steps.
C4_EvalReturn ==
    /\ ~envMisuse
    /\ pc = "eval_loop" => ~envDone
    /\ pc = "eval_return" => envDone /\ envT >= 1 /\ Len(rewards) = envT
    /\ (pc = "loop" /\ lastPolicy.kind = "predict") =>
          envDone /\ envT >= 1 /\ eval_reward = envRet

C4_Witness ==
    pc = "loop" /\ lastPolicy.kind = "predict" /\ envT = 2 /\ eval_reward = 1

\* the reward-to-go of each episode of the batch taken on its own
RECURSIVE PerEpisode(_, _, _)
PerEpisode(xs, lens, g) ==
    IF lens = <<>> THEN <<>>
    ELSE calc_discount_sum_rewards(SubSeq(xs, 1, Head(lens)), g)
            \o PerEpisode(SubSeq(xs, Head(lens) + 1, Len(xs)), Tail(lens), g)

RECURSIVE PerEpisodeGae(_, _, _)
PerEpisodeGae(rs, vs, lens) ==
    IF lens = <<>> THEN <<>>
    ELSE calc_gae(SubSeq(rs, 1, Head(lens)), SubSeq(vs, 1, Head(lens)),
                  args.gamma, args.lam)
            \o PerEpisodeGae(SubSeq(rs, Head(lens) + 1, Len(rs)),
                             SubSeq(vs, Head(lens) + 1, Len(vs)), Tail(lens))

\* C8: the discounted return handed to value_learn for a step is the
\* discounted sum of the scaled rewards from that step to the end of its own
\* episode, and the advantage of a step is computed from its own episode alone.
C8_RewardToGoPerEpisode ==
    pc = "value_learn" =>
        /\ discount_sum_rewards = PerEpisode(scale_rewards, batchEpLens, args.gamma)
        /\ advantages.spread_of = PerEpisodeGae(scale_rewards, pred_values, batchEpLens)

\* what holds instead: the reward-to-go runs to the end of the batch
RewardToGoPerBatch ==
    pc = "value_learn" =>
        discount_sum_rewards = calc_discount_sum_rewards(scale_rewards, args.gamma)

\* C10: in an evaluation episode the action given to env.step lies within
\* [low[i], high[i]] in every dimension i for every policy_predict value, and
\* policy_sample is not called.
C10_EvalActionInBounds ==
    /\ lastPolicy.kind = "predict" =>
          \A i \in 1..Len(lastAction) :
              envSpec.low[i] <= lastAction[i] /\ lastAction[i] <= envSpec.high[i]
    /\ (InEval /\ pc # "eval_start" /\ envT >= 1) => lastPolicy.kind = "predict"

\* what holds instead for predictions within [-1, 1]: the bounds of dimension 0
EvalActionInFirstBounds ==
    lastPolicy.kind = "predict" =>
        \A i \in 1..Len(lastAction) :
            envSpec.low[1] <= lastAction[i] /\ lastAction[i] <= envSpec.high[1]

\* the part of C10 that holds: evaluation calls policy_predict only
EvalUsesPredictOnly ==
    [][InEval => hist'.policy_sample = hist.policy_sample]_vars

====
